---- MODULE Spec2Model ----
\* backtrace-string: format_backtrace, filter_frames, format_frame_into and
\* clean_path of src/lib.rs, as a state machine over bounded traces.
\*
\* Text is modelled as a tuple of one-character strings, so that equality,
\* starts_with and contains are computed on the characters.  The String `out`
\* is modelled as the list of pieces written to it, each tagged with the source
\* line of the write that produced it; the real string is their concatenation.
EXTENDS Integers, Sequences, FiniteSets, TLC

VARIABLES frames, pc, start_index_found, end_index, start_index, iter, i, kept, out,
          p, once, twice

vars == <<frames, pc, start_index_found, end_index, start_index, iter, i, kept, out,
          p, once, twice>>

\* ---------------------------------------------------------------- bounds
\* Longest trace drawn (the window of 10 needs traces longer than 10).
MaxLen == 11
\* Most marker-carrying frames placed in one trace.
MaxMarked == 2
\* Most symbols in a trace of the rendering specification.
MaxSyms == 3
\* Most components of a path of the path specification.
MaxComps == 3

\* ---------------------------------------------------------------- Option
None == <<>>
Some(x) == <<x>>

\* ---------------------------------------------------------------- literals
\* The number of leading frames searched for the start marker.
Window == 10
\* PANIC_FMT is the text 'panic_fmt'
PANIC_FMT ==
    <<"p", "a", "n", "i", "c", "_", "f", "m", "t">>
\* STD_PANICKING is the text 'std::panicking'
STD_PANICKING ==
    <<"s", "t", "d", ":", ":", "p", "a", "n", "i", "c", "k", "i", "n", "g">>
\* BEGIN_SHORT_BACKTRACE is the text '__rust_begin_short_backtrace'
BEGIN_SHORT_BACKTRACE ==
    <<"_", "_", "r", "u", "s", "t", "_", "b", "e", "g", "i", "n", "_", "s", "h", "o", "r", "t", "_", "b", "a", "c", "k", "t", "r", "a", "c", "e">>
\* UNKNOWN is the text '<unknown>'
UNKNOWN ==
    <<"<", "u", "n", "k", "n", "o", "w", "n", ">">>
\* GITHUB_COM is the text 'github.com-'
GITHUB_COM ==
    <<"g", "i", "t", "h", "u", "b", ".", "c", "o", "m", "-">>
\* NAME_INDENT is the text '\n      '
NAME_INDENT ==
    <<"\n", " ", " ", " ", " ", " ", " ">>
\* AT_INDENT is the text '\n          at '
AT_INDENT ==
    <<"\n", " ", " ", " ", " ", " ", " ", " ", " ", " ", " ", "a", "t", " ">>
\* ADDRESS is the text 'address '
ADDRESS ==
    <<"a", "d", "d", "r", "e", "s", "s", " ">>
\* MANGLED_PREFIX is the text '_ZN'
MANGLED_PREFIX ==
    <<"_", "Z", "N">>
\* ---------------------------------------------------------------- input texts
\* SymFoo is the text '_ZN4main3fooE'
SymFoo ==
    <<"_", "Z", "N", "4", "m", "a", "i", "n", "3", "f", "o", "o", "E">>
\* SymFooPlain is the text 'main::foo'
SymFooPlain ==
    <<"m", "a", "i", "n", ":", ":", "f", "o", "o">>
\* SymBar is the text '_ZN4main3barE'
SymBar ==
    <<"_", "Z", "N", "4", "m", "a", "i", "n", "3", "b", "a", "r", "E">>
\* SymPanickingTry is the text '_ZN3std9panicking3tryE'
SymPanickingTry ==
    <<"_", "Z", "N", "3", "s", "t", "d", "9", "p", "a", "n", "i", "c", "k", "i", "n", "g", "3", "t", "r", "y", "E">>
\* SymCatchUnwind is the text '_ZN3std5panic12catch_unwindE'
SymCatchUnwind ==
    <<"_", "Z", "N", "3", "s", "t", "d", "5", "p", "a", "n", "i", "c", "1", "2", "c", "a", "t", "c", "h", "_", "u", "n", "w", "i", "n", "d", "E">>
\* SymCorePanicFmt is the text '_ZN4core9panicking9panic_fmtE'
SymCorePanicFmt ==
    <<"_", "Z", "N", "4", "c", "o", "r", "e", "9", "p", "a", "n", "i", "c", "k", "i", "n", "g", "9", "p", "a", "n", "i", "c", "_", "f", "m", "t", "E">>
\* SymBeginShort is the text '_ZN3std10sys_common9backtrace28__rust_begin_short_backtraceE'
SymBeginShort ==
    <<"_", "Z", "N", "3", "s", "t", "d", "1", "0", "s", "y", "s", "_", "c", "o", "m", "m", "o", "n", "9", "b", "a", "c", "k", "t", "r", "a", "c", "e", "2", "8", "_", "_", "r", "u", "s", "t", "_", "b", "e", "g", "i", "n", "_", "s", "h", "o", "r", "t", "_", "b", "a", "c", "k", "t", "r", "a", "c", "e", "E">>
\* FileMain is the text 'src/main.rs'
FileMain ==
    <<"s", "r", "c", "/", "m", "a", "i", "n", ".", "r", "s">>
\* FileStd is the text '/rustc/src/libstd/panic.rs'
FileStd ==
    <<"/", "r", "u", "s", "t", "c", "/", "s", "r", "c", "/", "l", "i", "b", "s", "t", "d", "/", "p", "a", "n", "i", "c", ".", "r", "s">>
\* FileDep is the text '/r/github.com-1ecc/tokio/src/lib.rs'
FileDep ==
    <<"/", "r", "/", "g", "i", "t", "h", "u", "b", ".", "c", "o", "m", "-", "1", "e", "c", "c", "/", "t", "o", "k", "i", "o", "/", "s", "r", "c", "/", "l", "i", "b", ".", "r", "s">>
\* CompGithub is the text 'github.com-1ecc'
CompGithub ==
    <<"g", "i", "t", "h", "u", "b", ".", "c", "o", "m", "-", "1", "e", "c", "c">>
\* CompGithubOther is the text 'github.com-2'
CompGithubOther ==
    <<"g", "i", "t", "h", "u", "b", ".", "c", "o", "m", "-", "2">>
\* CompGithubBare is the text 'github.com'
CompGithubBare ==
    <<"g", "i", "t", "h", "u", "b", ".", "c", "o", "m">>
\* CompSrc is the text 'src'
CompSrc ==
    <<"s", "r", "c">>
\* CompLib is the text 'lib.rs'
CompLib ==
    <<"l", "i", "b", ".", "r", "s">>

\* ---------------------------------------------------------------- str
\* str::starts_with
StartsWith(s, prefix) ==
    Len(s) >= Len(prefix) /\ SubSeq(s, 1, Len(prefix)) = prefix

\* str::contains
Contains(s, pat) ==
    \E k \in 0..(Len(s) - Len(pat)) : SubSeq(s, k + 1, k + Len(pat)) = pat

Digits == <<"0", "1", "2", "3", "4", "5", "6", "7", "8", "9">>

HexDigits == Digits \o <<"a", "b", "c", "d", "e", "f">>

IsDigit(c) == \E d \in 1..10 : Digits[d] = c

DigitValue(c) == (CHOOSE d \in 1..10 : Digits[d] = c) - 1

\* `{}` of an unsigned integer: its decimal digits.
RECURSIVE ToDecimal(_)
ToDecimal(n) ==
    IF n < 10 THEN <<Digits[n + 1]>>
    ELSE ToDecimal(n \div 10) \o <<Digits[(n % 10) + 1]>>

\* `{:p}` of a pointer: 0x and its lowercase hexadecimal digits.
RECURSIVE ToHex(_)
ToHex(n) ==
    IF n < 16 THEN <<HexDigits[n + 1]>>
    ELSE ToHex(n \div 16) \o <<HexDigits[(n % 16) + 1]>>

Pointer(addr) == <<"0", "x">> \o ToHex(addr)

\* `{:4}` of an index: right-aligned in a field of four, never truncated.
RECURSIVE PadLeft(_, _)
PadLeft(s, width) ==
    IF Len(s) >= width THEN s ELSE PadLeft(<<" ">> \o s, width)

Pad4(index) == PadLeft(ToDecimal(index), 4)

\* ---------------------------------------------------------------- demangle
\* rustc_demangle::demangle, for the legacy scheme the inputs use:
\* _ZN <len><ident> ... E  becomes the identifiers joined by ::, and anything
\* that does not parse that way is passed through unchanged.
RECURSIVE LeadingDigits(_)
LeadingDigits(s) ==
    IF s # <<>> /\ IsDigit(Head(s)) THEN 1 + LeadingDigits(Tail(s)) ELSE 0

RECURSIVE DecimalValue(_)
DecimalValue(ds) ==
    IF ds = <<>> THEN 0
    ELSE DecimalValue(SubSeq(ds, 1, Len(ds) - 1)) * 10 + DigitValue(ds[Len(ds)])

RECURSIVE DemangleElements(_, _)
DemangleElements(rest, acc) ==
    IF rest = <<>> THEN None
    ELSE IF Head(rest) = "E"
         THEN (IF Len(rest) = 1 /\ acc # <<>> THEN Some(acc) ELSE None)
    ELSE LET n == LeadingDigits(rest)
             len == DecimalValue(SubSeq(rest, 1, n))
         IN  IF n = 0 \/ len = 0 \/ Len(rest) < n + len THEN None
             ELSE DemangleElements(
                      SubSeq(rest, n + len + 1, Len(rest)),
                      (IF acc = <<>> THEN <<>> ELSE acc \o <<":", ":">>)
                          \o SubSeq(rest, n + 1, n + len))

Demangle(s) ==
    IF StartsWith(s, MANGLED_PREFIX)
    THEN LET r == DemangleElements(SubSeq(s, Len(MANGLED_PREFIX) + 1, Len(s)), <<>>)
         IN  IF r = None THEN s ELSE r[1]
    ELSE s

\* ---------------------------------------------------------------- Path
\* Path::is_absolute (Unix): the path starts at the root.
IsAbsolute(path) == path # <<>> /\ path[1] = "/"

\* The pieces of a path between separators, empty ones included.
RECURSIVE SplitSeparators(_, _, _)
SplitSeparators(rest, cur, acc) ==
    IF rest = <<>> THEN Append(acc, cur)
    ELSE IF Head(rest) = "/" THEN SplitSeparators(Tail(rest), <<>>, Append(acc, cur))
    ELSE SplitSeparators(Tail(rest), Append(cur, Head(rest)), acc)

RECURSIVE NormalComponents(_, _, _)
NormalComponents(segs, k, relative) ==
    IF k > Len(segs) THEN <<>>
    ELSE IF segs[k] = <<>> \/ (segs[k] = <<".">> /\ ~(k = 1 /\ relative))
         THEN NormalComponents(segs, k + 1, relative)
    ELSE <<segs[k]>> \o NormalComponents(segs, k + 1, relative)

\* Path::iter: the root (if any) and then the components; repeated separators
\* and `.` (other than a leading one) are skipped.
Components(path) ==
    (IF IsAbsolute(path) THEN << <<"/">> >> ELSE <<>>)
        \o NormalComponents(SplitSeparators(path, <<>>, <<>>), 1, ~IsAbsolute(path))

\* PathBuf::push
Push(buf, component) ==
    IF IsAbsolute(component) THEN component
    ELSE IF buf = <<>> \/ buf[Len(buf)] = "/" THEN buf \o component
    ELSE buf \o <<"/">> \o component

\* collect::<PathBuf>()
RECURSIVE Collect(_, _)
Collect(components, buf) ==
    IF components = <<>> THEN buf
    ELSE Collect(Tail(components), Push(buf, Head(components)))

\* Iterator::position over the components: the first whose text starts with
\* github.com- (zero-based), or None.
RECURSIVE PositionGithub(_, _)
PositionGithub(components, k) ==
    IF k > Len(components) THEN None
    ELSE IF StartsWith(components[k], GITHUB_COM) THEN Some(k - 1)
    ELSE PositionGithub(components, k + 1)

\* p.iter().skip(n)
Skip(components, n) == SubSeq(components, n + 1, Len(components))

\* A shortening that does not ask whether the path is absolute.
clean_path_AnyPath(path) ==
    LET components == Components(path)
        pos == PositionGithub(components, 1)
    IN  IF pos # None THEN Collect(Skip(components, pos[1] + 1), <<>>)
        ELSE path

\* clean_path: an absolute path is cut after its first github.com- component.
clean_path(path) ==
    IF IsAbsolute(path)
    THEN LET components == Components(path)
             pos == PositionGithub(components, 1)
         IN  IF pos # None THEN Collect(Skip(components, pos[1] + 1), <<>>)
             ELSE path
    ELSE path

\* ---------------------------------------------------------------- filter_frames
\* A search that is not limited to the first frames.
fr_Unbounded(fs) == fs

\* The subslice searched for the start marker.
fr(fs) == IF Len(fs) > Window THEN SubSeq(fs, 1, Window) ELSE fs

\* A start predicate that also takes the begin-short-backtrace marker.
IsStartSym_WithBeginShort(sym) ==
    sym = PANIC_FMT \/ StartsWith(sym, STD_PANICKING) \/ Contains(sym, BEGIN_SHORT_BACKTRACE)

\* The predicate of the start search.
IsStartSym(sym) == sym = PANIC_FMT \/ StartsWith(sym, STD_PANICKING)

\* The predicate of the end search.
IsEndSym(sym) == Contains(sym, BEGIN_SHORT_BACKTRACE)

\* The two closures handed to frame_contains_symbol, and their application.
StartClosure == "start"

EndClosure == "end"

Call(pred, sym) == IF pred = StartClosure THEN IsStartSym(sym) ELSE IsEndSym(sym)

\* frame_contains_symbol: some symbol of the frame has a name, and the
\* predicate holds of its demangled form.
frame_contains_symbol(frame, pred) ==
    \E k \in 1..Len(frame) :
        IF frame[k].name # None THEN Call(pred, Demangle(frame[k].name[1])) ELSE FALSE

\* rposition over the subslice: the last matching frame, zero-based.
RECURSIVE RPositionStart(_, _)
RPositionStart(slice, k) ==
    IF k = 0 THEN None
    ELSE IF frame_contains_symbol(slice[k], StartClosure) THEN Some(k - 1)
    ELSE RPositionStart(slice, k - 1)

\* An end search without rev(): the first matching frame of the first k.
RFindEnd_First(fs, k) ==
    LET hits == {x \in 1..k : \E y \in 1..Len(fs[x]) :
                    IF fs[x][y].name # None
                    THEN Contains(Demangle(fs[x][y].name[1]), BEGIN_SHORT_BACKTRACE)
                    ELSE FALSE}
    IN  IF hits = {} THEN None ELSE Some((CHOOSE x \in hits : \A y \in hits : x <= y) - 1)

\* enumerate().rev().find(..).map(|(i, _)| i) over all the frames.
RECURSIVE RFindEnd(_, _)
RFindEnd(fs, k) ==
    IF k = 0 THEN None
    ELSE IF frame_contains_symbol(fs[k], EndClosure) THEN Some(k - 1)
    ELSE RFindEnd(fs, k - 1)

\* A guard that lets a start boundary equal to the end boundary through.
GuardStart_Strict(s, e) ==
    IF s = None THEN None
    ELSE IF (IF e # None THEN s[1] > e[1] ELSE FALSE) THEN None
    ELSE s

\* The guard that drops a start boundary at or after the end boundary.
GuardStart(s, e) ==
    IF s = None THEN None
    ELSE IF (IF e # None THEN s[1] >= e[1] ELSE FALSE) THEN None
    ELSE s

\* A filter that keeps the start boundary itself.
FilterKeeps_Inclusive(idx, s, e) ==
    LET after_start == IF s # None THEN idx >= s[1] ELSE TRUE
        before_end == IF e # None THEN idx < e[1] ELSE TRUE
    IN  after_start /\ before_end

\* The closure of the final filter.
FilterKeeps(idx, s, e) ==
    LET after_start == IF s # None THEN idx > s[1] ELSE TRUE
        before_end == IF e # None THEN idx < e[1] ELSE TRUE
    IN  after_start /\ before_end

\* ---------------------------------------------------------------- format_frame_into
\* One write to the String: the line of the write, and the text written.
W(line, text) == [line |-> line, text |-> text]

\* A match on last_symbol that writes every name.
WriteName_NoDedup(o, last_symbol, name) ==
    IF last_symbol = None
    THEN [out |-> Append(o, W(63, <<" ">> \o name)), last_symbol |-> Some(name)]
    ELSE [out |-> Append(o, W(67, NAME_INDENT \o name)), last_symbol |-> Some(name)]

\* The match on last_symbol: what is written, and the new last_symbol.
WriteName(o, last_symbol, name) ==
    IF last_symbol = None
    THEN [out |-> Append(o, W(63, <<" ">> \o name)), last_symbol |-> Some(name)]
    ELSE IF last_symbol[1] # name
    THEN [out |-> Append(o, W(67, NAME_INDENT \o name)), last_symbol |-> Some(name)]
    ELSE [out |-> o, last_symbol |-> last_symbol]

\* A location line that prefers the address to the file.
WriteLocation_AddressFirst(o, symbol) ==
    LET o1 == Append(o, W(76, AT_INDENT))
        path == IF symbol.filename # None THEN Some(clean_path(symbol.filename[1])) ELSE None
    IN  IF symbol.addr # None
        THEN Append(o1, W(81, ADDRESS \o Pointer(symbol.addr[1])))
        ELSE IF path # None /\ symbol.lineno # None
        THEN Append(o1, W(79, path[1] \o <<":">> \o ToDecimal(symbol.lineno[1])))
        ELSE IF path # None
        THEN Append(o1, W(80, path[1]))
        ELSE Append(o1, W(82, UNKNOWN))

\* The location line of one symbol.
WriteLocation(o, symbol) ==
    LET o1 == Append(o, W(76, AT_INDENT))
        path == IF symbol.filename # None THEN Some(clean_path(symbol.filename[1])) ELSE None
    IN  IF path # None /\ symbol.lineno # None
        THEN Append(o1, W(79, path[1] \o <<":">> \o ToDecimal(symbol.lineno[1])))
        ELSE IF path # None
        THEN Append(o1, W(80, path[1]))
        ELSE IF symbol.addr # None
        THEN Append(o1, W(81, ADDRESS \o Pointer(symbol.addr[1])))
        ELSE Append(o1, W(82, UNKNOWN))

\* The loop over the symbols of a frame, from symbol k on.
RECURSIVE FormatSymbols(_, _, _, _)
FormatSymbols(o, symbols, k, last_symbol) ==
    IF k > Len(symbols) THEN o
    ELSE LET symbol == symbols[k]
             name == Demangle(IF symbol.name # None THEN symbol.name[1] ELSE UNKNOWN)
             named == WriteName(o, last_symbol, name)
         IN  FormatSymbols(WriteLocation(named.out, symbol), symbols, k + 1,
                           named.last_symbol)

format_frame_into(o, index, frame) ==
    LET o1 == Append(o, W(49, Pad4(index) \o <<":">>))
        o2 == FormatSymbols(o1, frame, 1, None)
    IN  Append(o2, W(86, <<"\n">>))

\* ---------------------------------------------------------------- inputs
\* One resolved symbol: optional name, file, line and address.
Sym(name, filename, lineno, addr) ==
    [name |-> name, filename |-> filename, lineno |-> lineno, addr |-> addr]

\* Frames that carry no marker name.  Lines and addresses depend on the frame's
\* index in the trace, so a rendered frame shows which frame it was.
FillerFrame(idx) ==
    CASE idx % 5 = 0 -> <<Sym(Some(SymFoo), Some(FileMain), Some(10 + idx), Some(4096 + idx))>>
      [] idx % 5 = 1 -> <<Sym(Some(SymCorePanicFmt), Some(FileDep), Some(10 + idx), None)>>
      [] idx % 5 = 2 -> <<Sym(None, None, None, Some(4096 + idx))>>
      [] idx % 5 = 3 -> <<>>
      [] OTHER -> <<Sym(Some(SymBar), Some(FileMain), Some(10 + idx), None),
                    Sym(Some(SymBar), Some(FileMain), None, None)>>

MarkedKinds == {"PanicFmt", "PanickingTry", "BeginShort", "TryInBegin"}

\* Frames that carry a marker name.
MarkedFrame(kind, idx) ==
    CASE kind = "PanicFmt" ->
            <<Sym(Some(PANIC_FMT), None, None, Some(4096 + idx))>>
      [] kind = "PanickingTry" ->
            <<Sym(Some(SymPanickingTry), Some(FileStd), Some(10 + idx), None),
              Sym(Some(SymCatchUnwind), Some(FileStd), Some(10 + idx), None)>>
      [] kind = "BeginShort" ->
            <<Sym(None, None, None, Some(4096 + idx)),
              Sym(Some(SymBeginShort), Some(FileStd), Some(10 + idx), None)>>
      [] OTHER ->
            <<Sym(Some(SymBeginShort), Some(FileStd), Some(10 + idx), None),
              Sym(Some(SymPanickingTry), Some(FileStd), Some(10 + idx), None)>>

\* A trace of n frames, those at the indices of `marked` of the kind given.
Trace(n, marked, kinds) ==
    [k \in 1..n |-> IF (k - 1) \in marked THEN MarkedFrame(kinds[k - 1], k - 1)
                                         ELSE FillerFrame(k - 1)]

\* The symbols of SpecRender: every combination of file, line and address
\* present or absent, over names that are equal, equal once demangled, absent
\* or different.
RenderSymbols ==
    { Sym(Some(SymFoo), Some(FileDep), Some(7), Some(4096)),
      Sym(Some(SymFooPlain), Some(FileMain), Some(12), None),
      Sym(Some(SymFoo), Some(FileStd), None, Some(4112)),
      Sym(None, Some(FileMain), None, None),
      Sym(None, None, Some(9), Some(255)),
      Sym(Some(SymBar), None, Some(9), None),
      Sym(Some(SymFooPlain), None, None, Some(43981)),
      Sym(None, None, None, None) }

\* A trace of two frames: the first `cut` of the symbols, and the rest.
RenderTrace(syms, cut) == <<SubSeq(syms, 1, cut), SubSeq(syms, cut + 1, Len(syms))>>

PathComponents ==
    {CompGithub, CompGithubOther, CompGithubBare, CompSrc, CompLib, <<".">>, <<>>}

RECURSIVE Join(_)
Join(components) ==
    IF components = <<>> THEN <<>>
    ELSE IF Len(components) = 1 THEN components[1]
    ELSE components[1] \o <<"/">> \o Join(Tail(components))

\* The path made of the pieces, from the root or not.
PathOf(root, components) == (IF root THEN <<"/">> ELSE <<>>) \o Join(components)

\* ---------------------------------------------------------------- states
Idle ==
    /\ start_index_found = None /\ end_index = None /\ start_index = None
    /\ iter = 0 /\ i = 0 /\ kept = <<>> /\ out = <<>>

\* The traces of Spec: up to MaxLen frames, up to MaxMarked of them marked.
Init ==
    /\ \E n \in 0..MaxLen :
         \E marked \in {m \in SUBSET (0..(n - 1)) : Cardinality(m) <= MaxMarked} :
           \E kinds \in [marked -> MarkedKinds] :
             frames = Trace(n, marked, kinds)
    /\ pc = "start"
    /\ Idle
    /\ p = <<>> /\ once = None /\ twice = None

\* The traces of SpecRender: two frames sharing up to MaxSyms symbols.
InitRender ==
    /\ \E m \in 0..MaxSyms :
         \E syms \in [1..m -> RenderSymbols] :
           \E cut \in 0..m :
             frames = RenderTrace(syms, cut)
    /\ pc = "start"
    /\ Idle
    /\ p = <<>> /\ once = None /\ twice = None

\* The paths of SpecPath: absolute or relative, up to MaxComps pieces.
InitPath ==
    /\ frames = <<>>
    /\ pc = "path"
    /\ Idle
    /\ \E m \in 0..MaxComps :
         \E components \in [1..m -> PathComponents] :
           \E root \in BOOLEAN :
             p = PathOf(root, components)
    /\ once = None /\ twice = None

\* ---------------------------------------------------------------- format_backtrace
\* The zero-based indices the filter has still to look at and would yield.
Pending == {j \in iter..(Len(frames) - 1) : FilterKeeps(j, start_index, end_index)}

Min(S) == CHOOSE x \in S : \A y \in S : x <= y

\* format_backtrace up to the loop: the leading newline, and filter_frames
\* computing its two boundaries.
FormatBacktrace ==
    /\ pc = "start"
    /\ out' = <<W(40, <<"\n">>)>>
    /\ start_index_found' = RPositionStart(fr(frames), Len(fr(frames)))
    /\ end_index' = RFindEnd(frames, Len(frames))
    /\ start_index' = GuardStart(start_index_found', end_index')
    /\ iter' = 0 /\ i' = 0 /\ kept' = <<>>
    /\ pc' = "loop"
    /\ UNCHANGED <<frames, p, once, twice>>

\* A loop that numbers a frame by its index in the trace.
FormatFrame_OriginalIndex ==
    /\ pc = "loop"
    /\ Pending # {}
    /\ LET j == Min(Pending)
       IN  /\ out' = format_frame_into(out, j, frames[j + 1])
           /\ kept' = Append(kept, j)
           /\ iter' = j + 1
    /\ i' = i + 1
    /\ UNCHANGED <<frames, pc, start_index_found, end_index, start_index, p, once, twice>>

\* One turn of the loop: the filter yields its next frame, which is rendered
\* under the next display index.
FormatFrame ==
    /\ pc = "loop"
    /\ Pending # {}
    /\ LET j == Min(Pending)
       IN  /\ out' = format_frame_into(out, i, frames[j + 1])
           /\ kept' = Append(kept, j)
           /\ iter' = j + 1
    /\ i' = i + 1
    /\ UNCHANGED <<frames, pc, start_index_found, end_index, start_index, p, once, twice>>

\* The filter is exhausted: format_backtrace returns out.
Return ==
    /\ pc = "loop"
    /\ Pending = {}
    /\ pc' = "done"
    /\ iter' = Len(frames)
    /\ UNCHANGED <<frames, start_index_found, end_index, start_index, i, kept, out,
                   p, once, twice>>

Next == FormatBacktrace \/ FormatFrame \/ Return

Spec == Init /\ [][Next]_vars

SpecRender == InitRender /\ [][Next]_vars

\* ---------------------------------------------------------------- clean_path
CleanOnce ==
    /\ pc = "path" /\ once = None
    /\ once' = Some(clean_path(p))
    /\ UNCHANGED <<frames, pc, start_index_found, end_index, start_index, iter, i, kept,
                   out, p, twice>>

CleanTwice ==
    /\ pc = "path" /\ once # None /\ twice = None
    /\ twice' = Some(clean_path(once[1]))
    /\ UNCHANGED <<frames, pc, start_index_found, end_index, start_index, iter, i, kept,
                   out, p, once>>

NextPath == CleanOnce \/ CleanTwice

SpecPath == InitPath /\ [][NextPath]_vars

\* ---------------------------------------------------------------- claim vocabulary
Max(S) == CHOOSE x \in S : \A y \in S : x >= y

\* The sequence lo, lo+1, ..., hi-1 (empty when hi <= lo).
Range(lo, hi) == [k \in 1..(hi - lo) |-> lo + k - 1]

\* The demangled names of the named symbols of a frame.
DemangledNames(frame) ==
    {Demangle(frame[k].name[1]) : k \in {x \in 1..Len(frame) : frame[x].name # None}}

HasStartName(frame) ==
    \E nm \in DemangledNames(frame) : nm = PANIC_FMT \/ StartsWith(nm, STD_PANICKING)

HasEndName(frame) ==
    \E nm \in DemangledNames(frame) : Contains(nm, BEGIN_SHORT_BACKTRACE)

\* Zero-based indices of the frames in the start window that carry a start name.
WindowStartHits ==
    {k \in 0..((IF Len(frames) < 10 THEN Len(frames) ELSE 10) - 1) : HasStartName(frames[k + 1])}

\* Zero-based indices of all the frames that carry the end name.
EndHits == {k \in 0..(Len(frames) - 1) : HasEndName(frames[k + 1])}

\* The bounds of the kept range that the two boundaries in force describe.
Lo == IF start_index = None THEN 0 ELSE start_index[1] + 1

Hi == IF end_index = None THEN Len(frames) ELSE end_index[1]

Filtered == pc \in {"loop", "done"}

Done == pc = "done"

\* The text of the String: the pieces written, concatenated.
RECURSIVE Text(_)
Text(o) == IF o = <<>> THEN <<>> ELSE Head(o).text \o Text(Tail(o))

\* ---------------------------------------------------------------- C1
\* C1: for a trace taken outside a panic hook (frame 0 carries no marker name,
\* no frame is panic_fmt) whose end boundary is at e >= 1, nothing is dropped
\* from the innermost end: the report is not
\* empty, display frame 0 is original frame 0, and exactly frames 0..e-1 are
\* rendered, also when a std::panicking frame lies between frame 0 and e.
C1_OutsideHookKeepsInnermost ==
    (/\ Done
     /\ Len(frames) >= 2
     /\ ~HasStartName(frames[1]) /\ ~HasEndName(frames[1])
     /\ \A k \in 1..Len(frames) : PANIC_FMT \notin DemangledNames(frames[k])
     /\ end_index # None /\ end_index[1] >= 1)
    => (/\ Len(out) > 1
        /\ kept # <<>> /\ kept[1] = 0
        /\ kept = Range(0, end_index[1]))

C3_BeginShortCountsAsStart ==
    Done =>
        LET hits == WindowStartHits \cup {k \in EndHits : k < 10}
        IN  start_index_found = (IF hits = {} THEN None ELSE Some(Max(hits)))

\* C3 as amended: in the start search a frame of the window counts as a match
\* exactly when it has a name equal to panic_fmt or prefixed by std::panicking;
\* a frame whose only marker is the begin-short-backtrace one does not count.
C3_OnlyPanicNamesCountAsStart ==
    Done =>
        \A k \in 0..(Len(frames) - 1) :
            /\ (start_index_found = Some(k)) => (k < 10 /\ HasStartName(frames[k + 1]))
            /\ (k < 10 /\ HasStartName(frames[k + 1])) =>
                   (start_index_found # None /\ start_index_found[1] >= k)
            /\ (HasEndName(frames[k + 1]) /\ ~HasStartName(frames[k + 1])) =>
                   start_index_found # Some(k)

C3_Witness ==
    /\ Done
    /\ \E k \in 0..(Len(frames) - 1) :
           /\ k < 10
           /\ HasEndName(frames[k + 1]) /\ ~HasStartName(frames[k + 1])
           /\ start_index_found # None /\ start_index_found[1] < k

\* ---------------------------------------------------------------- C4
\* C4: the end boundary is the highest-index frame of the whole trace, at any
\* depth, that has a named symbol whose demangled name contains the
\* begin-short-backtrace marker; when there is one no frame at or after it is
\* kept; a symbol without a name never makes a frame match.
C4_EndBoundary ==
    Done =>
        /\ end_index = (IF EndHits = {} THEN None ELSE Some(Max(EndHits)))
        /\ (end_index # None) => \A k \in 1..Len(kept) : kept[k] < end_index[1]
        /\ \A k \in 0..(Len(frames) - 1) :
               (\A x \in 1..Len(frames[k + 1]) : frames[k + 1][x].name = None)
                   => end_index # Some(k)

C4_Witness ==
    /\ Done
    /\ end_index # None /\ end_index[1] >= 10
    /\ frames[end_index[1] + 1][1].name = None
    /\ \E k \in 0..(end_index[1] - 1) : HasEndName(frames[k + 1])
    /\ kept # <<>>

\* ---------------------------------------------------------------- C5
\* C5: when a start and an end boundary are both found and the start is at or
\* after the end, exactly the frames before the end boundary are kept, as if
\* there were no start marker; and for every trace the kept range's start
\* position does not exceed its end position.
C5_NonInversion ==
    Done =>
        /\ (/\ start_index_found # None /\ end_index # None
            /\ start_index_found[1] >= end_index[1])
               => (start_index = None /\ kept = Range(0, end_index[1]))
        /\ Lo <= Hi

C5_Witness ==
    /\ Done
    /\ start_index_found # None /\ end_index # None
    /\ start_index_found[1] = end_index[1]
    /\ Len(kept) >= 2

\* ---------------------------------------------------------------- C6
\* C6: the frames the filter yields are the original indices strictly between
\* the boundaries in force, each once and in increasing order (a missing
\* boundary imposes no limit); with no marker anywhere the whole trace is
\* yielded.
C6_ContiguousSubRange ==
    Filtered =>
        /\ \A k \in 1..Len(kept) : kept[k] = Lo + k - 1
        /\ Done => kept = Range(Lo, Hi)
        /\ (Done /\ EndHits = {} /\ \A k \in 1..Len(frames) : ~HasStartName(frames[k]))
               => kept = Range(0, Len(frames))

C6_Witness ==
    /\ Done
    /\ start_index # None /\ end_index # None
    /\ Lo >= 2 /\ Hi < Len(frames) - 1
    /\ Len(kept) >= 3

\* ---------------------------------------------------------------- C7
\* The pieces written for the surviving frames from the k-th on, each under its
\* position among the survivors.
RECURSIVE BlocksFrom(_)
BlocksFrom(k) ==
    IF k > Len(kept) THEN <<>>
    ELSE format_frame_into(<<>>, k - 1, frames[kept[k] + 1]) \o BlocksFrom(k + 1)

\* The headers written, in order.
Headers == SelectSeq(out, LAMBDA w : w.line = 49)

\* C7: the result is one leading newline followed by one block per surviving
\* frame, in the order the filter yields them, the k-th block (k from 0) headed
\* by the display index k whatever the frame's original index; with no
\* surviving frame the result is exactly the newline.
C7_DisplayIndices ==
    Done =>
        /\ out = <<W(40, <<"\n">>)>> \o BlocksFrom(1)
        /\ Headers = [k \in 1..Len(kept) |-> W(49, Pad4(k - 1) \o <<":">>)]
        /\ kept = <<>> => Text(out) = <<"\n">>

C7_Witness ==
    /\ Done
    /\ Len(kept) >= 2 /\ kept[1] >= 2
    /\ Headers[1].text = <<" ", " ", " ", "0", ":">>

\* ---------------------------------------------------------------- C8
\* The name a symbol is rendered under.
RenderedName(symbol) ==
    Demangle(IF symbol.name = None THEN UNKNOWN ELSE symbol.name[1])

\* What C8 expects of symbols j.. of a frame, location texts left out.
RECURSIVE ExpectedNames(_, _)
ExpectedNames(frame, j) ==
    IF j > Len(frame) THEN <<>>
    ELSE (IF j = 1 THEN <<W(63, <<" ">> \o RenderedName(frame[j]))>>
          ELSE IF RenderedName(frame[j]) # RenderedName(frame[j - 1])
               THEN <<W(67, NAME_INDENT \o RenderedName(frame[j]))>>
          ELSE <<>>)
         \o <<W(76, AT_INDENT)>> \o ExpectedNames(frame, j + 1)

RECURSIVE ExpectedNameBlocks(_)
ExpectedNameBlocks(k) ==
    IF k > Len(kept) THEN <<>>
    ELSE <<W(49, Pad4(k - 1) \o <<":">>)>> \o ExpectedNames(frames[kept[k] + 1], 1)
             \o <<W(86, <<"\n">>)>> \o ExpectedNameBlocks(k + 1)

IsLocation(w) == w.line \in {79, 80, 81, 82}

\* C8: within a frame a name is written for a symbol exactly when it is the
\* frame's first symbol or its rendered name differs from that of the symbol
\* right before it in the same frame, and every symbol gets one "at" line; the
\* first symbol of each frame is named whatever the previous frame ended with.
C8_AdjacentDedup ==
    Done =>
        SelectSeq(out, LAMBDA w : ~IsLocation(w))
            = <<W(40, <<"\n">>)>> \o ExpectedNameBlocks(1)

C8_Witness ==
    /\ Done
    /\ Len(frames) = 2 /\ Len(frames[1]) = 2 /\ Len(frames[2]) = 1
    /\ frames[1][1].name # frames[1][2].name
    /\ RenderedName(frames[1][1]) = RenderedName(frames[1][2])
    /\ RenderedName(frames[1][2]) = RenderedName(frames[2][1])
    /\ Cardinality({k \in 1..Len(out) : out[k].line \in {63, 67}}) = 2
    /\ Cardinality({k \in 1..Len(out) : out[k].line = 76}) = 3

\* ---------------------------------------------------------------- C9
\* The symbols of the surviving frames, in rendering order.
RECURSIVE SymbolsFrom(_)
SymbolsFrom(k) ==
    IF k > Len(kept) THEN <<>> ELSE frames[kept[k] + 1] \o SymbolsFrom(k + 1)

\* The location C9 expects for a symbol.
ExpectedLocation(symbol) ==
    CASE symbol.filename # None /\ symbol.lineno # None ->
            W(79, clean_path(symbol.filename[1]) \o <<":">> \o ToDecimal(symbol.lineno[1]))
      [] symbol.filename # None /\ symbol.lineno = None ->
            W(80, clean_path(symbol.filename[1]))
      [] symbol.filename = None /\ symbol.addr # None ->
            W(81, ADDRESS \o Pointer(symbol.addr[1]))
      [] symbol.filename = None /\ symbol.addr = None ->
            W(82, UNKNOWN)

\* C9: after every "at" exactly one location is written, and it is the file
\* and line when both are present, else the file alone when present, else the
\* address when present, else <unknown>; so no address next to a file and no
\* line without a file.
C9_LocationPriority ==
    Done =>
        /\ SelectSeq(out, IsLocation)
               = [k \in 1..Len(SymbolsFrom(1)) |-> ExpectedLocation(SymbolsFrom(1)[k])]
        /\ \A k \in 1..Len(out) :
               /\ IsLocation(out[k]) => (k > 1 /\ out[k - 1] = W(76, AT_INDENT))
               /\ out[k].line = 76 => (k < Len(out) /\ IsLocation(out[k + 1]))

C9_Witness ==
    /\ Done
    /\ \E k \in 1..Len(out) :
           out[k] = W(79, <<"t", "o", "k", "i", "o", "/", "s", "r", "c", "/", "l", "i", "b", ".", "r", "s", ":", "7">>)
    /\ \E k \in 1..Len(out) : out[k] = W(81, <<"a", "d", "d", "r", "e", "s", "s", " ", "0", "x", "f", "f">>)
    /\ \E k \in 1..Len(out) : out[k].line = 82

\* ---------------------------------------------------------------- C10
\* C10: clean_path applied twice gives what it gives applied once; a relative
\* path and an absolute path with no github.com- component come back unchanged;
\* an absolute path with such a component comes back as the components strictly
\* after the first one, a relative path.
C10_CleanPathIdempotent ==
    /\ twice # None => twice = once
    /\ once # None =>
           LET components == Components(p)
               hits == {k \in 1..Len(components) : StartsWith(components[k], GITHUB_COM)}
           IN  /\ ~IsAbsolute(p) => once[1] = p
               /\ (IsAbsolute(p) /\ hits = {}) => once[1] = p
               /\ (IsAbsolute(p) /\ hits # {}) =>
                      /\ once[1] = Join(SubSeq(components, Min(hits) + 1, Len(components)))
                      /\ ~IsAbsolute(once[1])

C10_Witness ==
    /\ twice # None
    /\ IsAbsolute(p)
    /\ once[1] # p
    /\ \E k \in 1..Len(Components(once[1])) : StartsWith(Components(once[1])[k], GITHUB_COM)

====
